---- MODULE Spec2Model ----
(***************************************************************************)
(* State-machine model of the VME bus driver, src/devices/bus/vme/vme.cpp: *)
(* the bus (vme_device), its slots (vme_slot_device) and the card          *)
(* interface (device_vme_card_interface).                                  *)
(*                                                                         *)
(* One machine holds one bus, NumSlots slots and one host CPU.  Slot s is  *)
(* either empty or holds card s.  The address spaces are external: a       *)
(* space is modelled by its decoder table, the sequence of the             *)
(* install_readwrite_handler calls made on it.  The machine starts each   *)
(* device once, in no order this file fixes.                               *)
(***************************************************************************)
EXTENDS Integers, Sequences, FiniteSets, TLC

\* ------------------------------------------------------------------ bounds
\* Number of backplane slots of the machine.
NumSlots == 2
\* Number of install_device calls a run makes.
MaxCalls == 2

\* --------------------------------------------------------------- constants
\* A uint32_t is held as its two 16-bit halves, each below Two16.
Two16 == 65536
Word(hi, lo) == [hi |-> hi, lo |-> lo]
\* The literal masks of install_device, 0x0000ffff and 0x00ffffff.
Mask16 == Word(0, 65535)
Mask24 == Word(255, 65535)
\* Data width of m_a32_config, the bus's own program space.
A32DataWidth == 32

NULL == "nullptr"
\* A pointer member that was never written, or that a null dereference
\* produced; and the same for the integer member m_prgwidth.
Indeterminate == "indeterminate"
IndeterminateWidth == -1

Slots == 1..NumSlots
\* Slot s holds card CardOf(s), or nothing.
CardOf(s) == "card" \o ToString(s)
Cards == {CardOf(s) : s \in Slots}
\* The tag of the one bus of the machine, and a tag that names no device.
BusTag == "vme"
BusTags == {BusTag, "nobus"}
SlotTag(s) == "slot" \o ToString(s)
\* The host CPU of the machine, and a tag that names no device.
CpuTags == {"maincpu", "nocpu"}
Cpus == {"maincpu"}
\* The program space of the bus itself and that of the host CPU.
OwnSpace == "vme:program"
CpuSpace == "maincpu:program"
Spaces == {OwnSpace, CpuSpace}
\* The data-bus widths an owner CPU's program space can be configured with.
CpuWidths == {8, 16, 24, 32}
\* What a read of an indeterminate width can yield.
AnyWidth == {0, 16, 32}

\* vme_amod_t values: the three single-cycle modifiers install_device
\* accepts and one of the others.
SupportedAmods == {"A16_SC", "A24_SC", "A32_SC"}
Amods == SupportedAmods \cup {"A24_BLK"}
\* Arguments a card passes to install_device.
Ranges == {<<16711680, 16711681>>, <<65536, 131071>>}
\* 0xffffffff, 0x00ff00ff and 0xff00ff00
Masks == {Word(65535, 65535), Word(255, 255), Word(65280, 65280)}
Handlers == {"sio0"}

VARIABLES
    \* vme_device
    bus_alive,        \* the bus object exists (constructed, not destroyed)
    bus_started,      \* vme_device::device_start has returned
    m_allocspaces,
    m_cputag,
    m_maincpu,
    m_prgspace,
    m_prgwidth,
    m_head, m_tail, m_count,   \* m_device_list, a simple_list of cards
    \* vme_slot_device, per slot
    plugged,          \* get_card_device() is a card
    slot_vme_tag,
    slot_vme_slottag,
    slot_started,
    \* device_vme_card_interface, per card (card s sits in slot s)
    card_exists,
    card_vme_tag,
    card_vme_slottag,
    m_vme,
    m_next,
    card_started,
    \* the environment
    decoders,         \* per space, the install_readwrite_handler calls
    failure,          \* how the run ended, "none" while it goes on:
                      \* "fatalerror" (emu_fatalerror thrown), "crash", or
                      \* "undefined" (it went on after undefined behaviour)
    \* history
    last,             \* the last install_device call and its outcome
    ncalls,           \* number of install_device calls so far
    attach_log        \* the cards add_vme_card was called with, in order

busvars == <<bus_alive, bus_started, m_allocspaces, m_cputag, m_maincpu,
             m_prgspace, m_prgwidth>>
listvars == <<m_head, m_tail, m_count, m_next, attach_log>>
slotvars == <<plugged, slot_vme_tag, slot_vme_slottag, slot_started>>
cardvars == <<card_exists, card_vme_tag, card_vme_slottag, m_vme, card_started>>
envvars == <<decoders, failure>>
histvars == <<last, ncalls>>
vars == <<busvars, listvars, slotvars, cardvars, envvars, histvars>>

\* ------------------------------------------------------------- arithmetic
\* x & y on naturals, bit by bit.
RECURSIVE BitAnd(_, _)
BitAnd(x, y) ==
    IF x = 0 \/ y = 0 THEN 0
    ELSE (IF x % 2 = 1 /\ y % 2 = 1 THEN 1 ELSE 0)
         + 2 * BitAnd(x \div 2, y \div 2)

\* x & y on uint32_t
WordAnd(x, y) == Word(BitAnd(x.hi, y.hi), BitAnd(x.lo, y.lo))

\* (uint16_t)x and (uint32_t)x
CastU16(x) == Word(0, x.lo % Two16)
CastU32(x) == Word(x.hi % Two16, x.lo % Two16)

NoCall == [shape |-> "none"]

\* ------------------------------------------------------------------- Init
\* The state after the constructors: vme_device::vme_device sets
\* m_allocspaces and m_cputag only; the card interface nulls its members.
Init ==
    /\ bus_alive = TRUE
    /\ bus_started = FALSE
    /\ m_allocspaces = TRUE
    /\ m_cputag = "maincpu"
    /\ m_maincpu = Indeterminate
    /\ m_prgspace = Indeterminate
    /\ m_prgwidth = IndeterminateWidth
    /\ m_head = NULL /\ m_tail = NULL /\ m_count = 0
    /\ plugged \in [Slots -> BOOLEAN]
    /\ slot_vme_tag = [s \in Slots |-> NULL]
    /\ slot_vme_slottag = [s \in Slots |-> NULL]
    /\ slot_started = [s \in Slots |-> FALSE]
    /\ card_exists = [c \in Cards |-> \E s \in Slots : plugged[s] /\ c = CardOf(s)]
    /\ card_vme_tag = [c \in Cards |-> NULL]
    /\ card_vme_slottag = [c \in Cards |-> NULL]
    /\ m_vme = [c \in Cards |-> NULL]
    /\ m_next = [c \in Cards |-> NULL]
    /\ card_started = [c \in Cards |-> FALSE]
    /\ decoders = [sp \in Spaces |-> <<>>]
    /\ failure = "none"
    /\ last = NoCall
    /\ ncalls = 0
    /\ attach_log = <<>>

\* The machine is being configured: no device has started yet.
Configuring ==
    /\ ~bus_started
    /\ \A s \in Slots : ~slot_started[s]
    /\ \A c \in Cards : ~card_started[c]
    /\ ncalls = 0

\* The machine runs: no fatalerror was thrown, the process did not crash and
\* nothing undefined has happened.
Running == failure = "none"

\* ------------------------------------------------------------ vme_device
\* static_set_cputag: names the CPU that owns the bus.
static_set_cputag(tag) ==
    /\ bus_alive /\ Configuring
    /\ m_cputag' = tag
    /\ UNCHANGED <<bus_alive, bus_started, m_allocspaces, m_maincpu,
                   m_prgspace, m_prgwidth>>
    /\ UNCHANGED <<listvars, slotvars, cardvars, envvars, histvars>>

\* static_use_owner_spaces: the bus will use its owner CPU's spaces.
static_use_owner_spaces ==
    /\ bus_alive /\ Configuring
    /\ m_allocspaces' = FALSE
    /\ UNCHANGED <<bus_alive, bus_started, m_cputag, m_maincpu,
                   m_prgspace, m_prgwidth>>
    /\ UNCHANGED <<listvars, slotvars, cardvars, envvars, histvars>>

\* owner()->subdevice<cpu_device>(tag): the CPU of that tag, or nullptr.
subdevice_cpu(tag) == IF tag \in Cpus THEN tag ELSE NULL

\* vme_device::device_start.  With m_allocspaces the bus takes its own
\* program space; otherwise it looks the CPU up and, without checking the
\* result, takes that CPU's program space and its m_databus_width.  On a
\* null m_maincpu the two member calls are undefined: the process crashes,
\* or it goes on with whatever the calls produced.
vme_device_start ==
    /\ bus_alive /\ ~bus_started /\ Running
    /\ IF m_allocspaces
       THEN /\ m_prgspace' = OwnSpace
            /\ m_prgwidth' = A32DataWidth
            /\ bus_started' = TRUE
            /\ UNCHANGED <<m_maincpu, failure>>
       ELSE /\ m_maincpu' = subdevice_cpu(m_cputag)
            /\ IF m_maincpu' # NULL
               THEN /\ m_prgspace' = CpuSpace
                    /\ m_prgwidth' \in CpuWidths
                    /\ bus_started' = TRUE
                    /\ UNCHANGED failure
               ELSE \/ /\ failure' = "crash"
                       /\ UNCHANGED <<m_prgspace, m_prgwidth, bus_started>>
                    \/ /\ failure' = "undefined"
                       /\ m_prgspace' = Indeterminate
                       /\ m_prgwidth' = IndeterminateWidth
                       /\ bus_started' = TRUE
    /\ UNCHANGED <<bus_alive, m_allocspaces, m_cputag>>
    /\ UNCHANGED <<listvars, slotvars, cardvars, decoders, histvars>>

\* ----------------------------------------------------------- install_device
\* What one install_device call does, given the width it read from
\* m_prgwidth: the fatalerror it throws, or the arguments it passes to
\* m_prgspace->install_readwrite_handler.  The two fatalerror calls of a
\* shape are told apart by their kind, "bad_amod" or "bad_width".
Fatal(kind) == [outcome |-> kind, decoder |-> <<>>]
Registered(start, end, rhandler, mask) ==
    [outcome |-> "ok",
     decoder |-> <<[start |-> start, end |-> end, handler |-> rhandler,
                    mask |-> mask]>>]

\* Faulty variant of the D8 installer: the 24-bit case narrows the mask
\* with the 16-bit literal.
install_device_D8_mask16(amod, width, start, end, rhandler, mask) ==
    IF amod \notin {"A16_SC", "A24_SC", "A32_SC"}
    THEN Fatal("bad_amod")
    ELSE CASE width = 16 ->
                Registered(start, end, <<"D8", rhandler>>,
                           CastU16(WordAnd(mask, Mask16)))
           [] width = 24 ->
                Registered(start, end, <<"D8", rhandler>>,
                           CastU32(WordAnd(mask, Mask16)))
           [] width = 32 ->
                Registered(start, end, <<"D8", rhandler>>, mask)
           [] OTHER -> Fatal("bad_width")

\* Faulty variant of the D8 installer: the address modifier selects the
\* address width, so an A16 range is cut to 16 bits.
install_device_D8_routed(amod, width, start, end, rhandler, mask) ==
    IF amod \notin {"A16_SC", "A24_SC", "A32_SC"}
    THEN Fatal("bad_amod")
    ELSE LET s == IF amod = "A16_SC" THEN start % Two16 ELSE start
             e == IF amod = "A16_SC" THEN end % Two16 ELSE end
         IN CASE width = 16 ->
                Registered(s, e, <<"D8", rhandler>>,
                           CastU16(WordAnd(mask, Mask16)))
           [] width = 24 ->
                Registered(s, e, <<"D8", rhandler>>,
                           CastU32(WordAnd(mask, Mask24)))
           [] width = 32 ->
                Registered(s, e, <<"D8", rhandler>>, mask)
           [] OTHER -> Fatal("bad_width")

\* install_device with read8_delegate / write8_delegate handlers
install_device_D8(amod, width, start, end, rhandler, mask) ==
    IF amod \notin {"A16_SC", "A24_SC", "A32_SC"}
    THEN Fatal("bad_amod")
    ELSE CASE width = 16 ->
                Registered(start, end, <<"D8", rhandler>>,
                           CastU16(WordAnd(mask, Mask16)))
           [] width = 24 ->
                Registered(start, end, <<"D8", rhandler>>,
                           CastU32(WordAnd(mask, Mask24)))
           [] width = 32 ->
                Registered(start, end, <<"D8", rhandler>>, mask)
           [] OTHER -> Fatal("bad_width")

\* Faulty variant of the D16 installer: the switch on the address modifier
\* has no default, so every modifier goes on to the width switch.
install_device_D16_no_default(amod, width, start, end, rhandler, mask) ==
    CASE width = 16 ->
            Registered(start, end, <<"D16", rhandler>>,
                       CastU16(WordAnd(mask, Mask16)))
      [] width = 24 ->
            Registered(start, end, <<"D16", rhandler>>,
                       CastU32(WordAnd(mask, Mask24)))
      [] width = 32 ->
            Registered(start, end, <<"D16", rhandler>>, mask)
      [] OTHER -> Fatal("bad_width")

\* install_device with read16_delegate / write16_delegate handlers
install_device_D16(amod, width, start, end, rhandler, mask) ==
    IF amod \notin {"A16_SC", "A24_SC", "A32_SC"}
    THEN Fatal("bad_amod")
    ELSE CASE width = 16 ->
                Registered(start, end, <<"D16", rhandler>>,
                           CastU16(WordAnd(mask, Mask16)))
           [] width = 24 ->
                Registered(start, end, <<"D16", rhandler>>,
                           CastU32(WordAnd(mask, Mask24)))
           [] width = 32 ->
                Registered(start, end, <<"D16", rhandler>>, mask)
           [] OTHER -> Fatal("bad_width")

\* Faulty variant of the D32 installer: the 32-bit case is the default of
\* the width switch, so no width is refused.
install_device_D32_any_width(amod, width, start, end, rhandler, mask) ==
    IF amod \notin {"A16_SC", "A24_SC", "A32_SC"}
    THEN Fatal("bad_amod")
    ELSE CASE width = 16 ->
                Registered(start, end, <<"D32", rhandler>>,
                           CastU16(WordAnd(mask, Mask16)))
           [] width = 24 ->
                Registered(start, end, <<"D32", rhandler>>,
                           CastU32(WordAnd(mask, Mask24)))
           [] OTHER ->
                Registered(start, end, <<"D32", rhandler>>, mask)

\* Faulty variant of the D32 installer: the 16-bit case passes the mask on
\* as it is.
install_device_D32_unmasked(amod, width, start, end, rhandler, mask) ==
    IF amod \notin {"A16_SC", "A24_SC", "A32_SC"}
    THEN Fatal("bad_amod")
    ELSE CASE width = 16 ->
                Registered(start, end, <<"D32", rhandler>>, mask)
           [] width = 24 ->
                Registered(start, end, <<"D32", rhandler>>,
                           CastU32(WordAnd(mask, Mask24)))
           [] width = 32 ->
                Registered(start, end, <<"D32", rhandler>>, mask)
           [] OTHER -> Fatal("bad_width")

\* install_device with read32_delegate / write32_delegate handlers
install_device_D32(amod, width, start, end, rhandler, mask) ==
    IF amod \notin {"A16_SC", "A24_SC", "A32_SC"}
    THEN Fatal("bad_amod")
    ELSE CASE width = 16 ->
                Registered(start, end, <<"D32", rhandler>>,
                           CastU16(WordAnd(mask, Mask16)))
           [] width = 24 ->
                Registered(start, end, <<"D32", rhandler>>,
                           CastU32(WordAnd(mask, Mask24)))
           [] width = 32 ->
                Registered(start, end, <<"D32", rhandler>>, mask)
           [] OTHER -> Fatal("bad_width")

\* The values a read of m_prgwidth and a use of m_prgspace can give: the
\* member's value, or anything when it was never set.
ReadWidth == IF m_prgwidth = IndeterminateWidth THEN AnyWidth ELSE {m_prgwidth}
ReadSpace == IF m_prgspace = Indeterminate THEN Spaces \cup {"wild"}
             ELSE {m_prgspace}

\* The effect of a call on the machine: res is what the call does, sp the
\* space m_prgspace points at ("wild": at no address space).  A call on a
\* bus whose members are indeterminate is undefined: it throws, crashes,
\* or registers somewhere and the run goes on undefined.
Effect(shape, amod, width, sp, start, end, rhandler, mask, res) ==
    /\ ncalls' = ncalls + 1
    /\ last' = [shape |-> shape, amod |-> amod, start |-> start, end |-> end,
                handler |-> rhandler, mask |-> mask, width |-> width,
                resolved |-> m_prgspace \in Spaces,
                outcome |-> IF res.outcome = "ok" /\ sp \notin Spaces
                            THEN "crash" ELSE res.outcome]
    /\ IF res.outcome # "ok"
       THEN failure' = "fatalerror" /\ UNCHANGED decoders
       ELSE IF sp \notin Spaces
       THEN failure' = "crash" /\ UNCHANGED decoders
       ELSE /\ decoders' = [decoders EXCEPT ![sp] = @ \o res.decoder]
            /\ failure' = IF m_prgspace \in Spaces THEN failure ELSE "undefined"
    /\ UNCHANGED <<busvars, listvars, slotvars, cardvars>>

CanInstall == bus_alive /\ Running /\ ncalls < MaxCalls

vme_install_device_D8 ==
    /\ CanInstall
    /\ \E amod \in Amods, r \in Ranges, h \in Handlers, mask \in Masks,
          w \in ReadWidth, sp \in ReadSpace :
          Effect("D8", amod, w, sp, r[1], r[2], h, mask,
                 install_device_D8(amod, w, r[1], r[2], h, mask))

vme_install_device_D16 ==
    /\ CanInstall
    /\ \E amod \in Amods, r \in Ranges, h \in Handlers, mask \in Masks,
          w \in ReadWidth, sp \in ReadSpace :
          Effect("D16", amod, w, sp, r[1], r[2], h, mask,
                 install_device_D16(amod, w, r[1], r[2], h, mask))

vme_install_device_D32 ==
    /\ CanInstall
    /\ \E amod \in Amods, r \in Ranges, h \in Handlers, mask \in Masks,
          w \in ReadWidth, sp \in ReadSpace :
          Effect("D32", amod, w, sp, r[1], r[2], h, mask,
                 install_device_D32(amod, w, r[1], r[2], h, mask))

\* ------------------------------------------------------------ m_device_list
\* The cards of the list, walked from m_head along m_next as a simple_list
\* is iterated (at most n steps).
RECURSIVE Walk(_, _, _)
Walk(p, next, n) ==
    IF p = NULL \/ n = 0 THEN <<>>
    ELSE <<p>> \o Walk(next[p], next, n - 1)

Enumerate == Walk(m_head, m_next, NumSlots + 1)

\* simple_list::append(object)
simple_list_append(card) ==
    /\ m_next' = IF m_tail # NULL
                 THEN [[m_next EXCEPT ![card] = NULL] EXCEPT ![m_tail] = card]
                 ELSE [m_next EXCEPT ![card] = NULL]
    /\ m_head' = IF m_tail # NULL THEN m_head ELSE card
    /\ m_tail' = card
    /\ m_count' = m_count + 1

\* vme_device::add_vme_card
add_vme_card(card) ==
    /\ simple_list_append(card)
    /\ attach_log' = Append(attach_log, card)

\* ~simple_list: reset() removes and frees every element reachable from
\* the head the list has at that moment.
simple_list_freed(head) ==
    LET w == Walk(head, m_next, NumSlots + 1) IN {w[i] : i \in 1..Len(w)}

\* Faulty variant of the destructor: detach_all() is not called, so the
\* list's own destructor frees the cards.
vme_device_dtor_no_detach ==
    /\ bus_alive /\ failure \in {"none", "fatalerror"}
    /\ bus_alive' = FALSE
    /\ card_exists' = [c \in Cards |->
                          card_exists[c] /\ c \notin simple_list_freed(m_head)]
    /\ m_head' = NULL /\ m_tail' = NULL /\ m_count' = 0
    /\ UNCHANGED <<bus_started, m_allocspaces, m_cputag, m_maincpu,
                   m_prgspace, m_prgwidth, m_next, attach_log>>
    /\ UNCHANGED <<slotvars, card_vme_tag, card_vme_slottag, m_vme,
                   card_started, envvars, histvars>>

\* vme_device::~vme_device: detach_all() empties the list without touching
\* its elements; the destructor of the member m_device_list then finds
\* nothing to free.
vme_device_dtor ==
    /\ bus_alive /\ failure \in {"none", "fatalerror"}
    /\ bus_alive' = FALSE
    /\ m_head' = NULL /\ m_tail' = NULL /\ m_count' = 0
    /\ card_exists' = [c \in Cards |->
                          card_exists[c] /\ c \notin simple_list_freed(m_head')]
    /\ UNCHANGED <<bus_started, m_allocspaces, m_cputag, m_maincpu,
                   m_prgspace, m_prgwidth, m_next, attach_log>>
    /\ UNCHANGED <<slotvars, card_vme_tag, card_vme_slottag, m_vme,
                   card_started, envvars, histvars>>

\* -------------------------------------------------------- vme_slot_device
\* static_set_vme_slot: the slot is told its bus and its own tag.
static_set_vme_slot(s, tag, slottag) ==
    /\ Configuring
    /\ slot_vme_tag' = [slot_vme_tag EXCEPT ![s] = tag]
    /\ slot_vme_slottag' = [slot_vme_slottag EXCEPT ![s] = slottag]
    /\ UNCHANGED <<plugged, slot_started>>
    /\ UNCHANGED <<busvars, listvars, cardvars, envvars, histvars>>

\* dynamic_cast<device_vme_card_interface *>(get_card_device())
get_card_device(s) == IF plugged[s] THEN CardOf(s) ELSE NULL

\* Faulty variant of static_set_vme_tag: the two tags are stored crosswise.
static_set_vme_tag_swapped(card, tag, slottag) ==
    /\ card_vme_tag' = [card_vme_tag EXCEPT ![card] = slottag]
    /\ card_vme_slottag' = [card_vme_slottag EXCEPT ![card] = tag]

\* device_vme_card_interface::static_set_vme_tag
static_set_vme_tag(card, tag, slottag) ==
    /\ card_vme_tag' = [card_vme_tag EXCEPT ![card] = tag]
    /\ card_vme_slottag' = [card_vme_slottag EXCEPT ![card] = slottag]

\* vme_slot_device::device_start
vme_slot_device_start(s) ==
    /\ ~slot_started[s] /\ Running
    /\ slot_started' = [slot_started EXCEPT ![s] = TRUE]
    /\ LET dev == get_card_device(s) IN
       IF dev # NULL
       THEN static_set_vme_tag(dev, slot_vme_tag[s], slot_vme_slottag[s])
       ELSE UNCHANGED <<card_vme_tag, card_vme_slottag>>
    /\ UNCHANGED <<plugged, slot_vme_tag, slot_vme_slottag>>
    /\ UNCHANGED <<card_exists, m_vme, card_started>>
    /\ UNCHANGED <<busvars, listvars, envvars, histvars>>

\* ---------------------------------------------- device_vme_card_interface
\* dynamic_cast<vme_device *>(device().machine().device(tag)): the bus when
\* the tag names it, nullptr for any other tag.
machine_device(tag) == IF tag = BusTag /\ bus_alive THEN BusTag ELSE NULL

\* Faulty variant of set_vme_device: the card is put on the list whether or
\* not the lookup found the bus.
set_vme_device_unchecked(card) ==
    /\ card_exists[card] /\ ~card_started[card] /\ Running
    /\ card_started' = [card_started EXCEPT ![card] = TRUE]
    /\ m_vme' = [m_vme EXCEPT ![card] = machine_device(card_vme_tag[card])]
    /\ add_vme_card(card)
    /\ UNCHANGED <<card_exists, card_vme_tag, card_vme_slottag>>
    /\ UNCHANGED <<busvars, slotvars, envvars, histvars>>

\* device_vme_card_interface::set_vme_device, which a card calls from its
\* device_start; the machine starts each device once.
set_vme_device(card) ==
    /\ card_exists[card] /\ ~card_started[card] /\ Running
    /\ card_started' = [card_started EXCEPT ![card] = TRUE]
    /\ m_vme' = [m_vme EXCEPT ![card] = machine_device(card_vme_tag[card])]
    /\ IF m_vme'[card] # NULL
       THEN add_vme_card(card)
       ELSE UNCHANGED listvars
    /\ UNCHANGED <<card_exists, card_vme_tag, card_vme_slottag>>
    /\ UNCHANGED <<busvars, slotvars, envvars, histvars>>

\* ------------------------------------------------------------------- Next
\* The bus, its address space and the installation of decoders.
NextInstall ==
    \/ \E tag \in CpuTags : static_set_cputag(tag)
    \/ static_use_owner_spaces
    \/ vme_device_start
    \/ vme_install_device_D8
    \/ vme_install_device_D16
    \/ vme_install_device_D32
    \/ vme_device_dtor

\* The bus, its slots and the attachment of their cards.
NextAttach ==
    \/ \E s \in Slots, tag \in BusTags : static_set_vme_slot(s, tag, SlotTag(s))
    \/ vme_device_start
    \/ \E s \in Slots : vme_slot_device_start(s)
    \/ \E c \in Cards : set_vme_device(c)
    \/ vme_device_dtor

Next == NextInstall \/ NextAttach

\* The whole machine.
Spec == Init /\ [][Next]_vars

\* The installation of decoders on a machine whose slots are empty.  The
\* install_device calls neither read nor write a slot, a card or the card
\* list, so what they do on this machine they do on every machine.
InitInstall == Init /\ plugged = [s \in Slots |-> FALSE]
SpecInstall == InitInstall /\ [][NextInstall]_vars

\* The attachment of cards on a machine that installs no decoder and whose
\* bus owns its address space.  The slots and cards neither read nor write
\* the address spaces; a fatalerror of install_device only stops them.
SpecAttach == Init /\ [][NextAttach]_vars

\* ================================================================= claims
\* An install_device call is the step that counts it.
Called == ncalls' = ncalls + 1
\* The bus holds a resolved address space.
Resolved == m_prgspace \in Spaces
\* mask AND (2^w - 1), for 16 <= w <= 32, on the two halves of the mask.
LowBits(mask, w) ==
    Word(IF w >= 32 THEN mask.hi ELSE mask.hi % (2 ^ (w - 16)), mask.lo)
\* The decoder a space received last.
Newest(sp) == decoders[sp][Len(decoders[sp])]
\* The decoder of a result without its handler pair.
Bare(res) == IF res.outcome # "ok" THEN <<>>
             ELSE <<res.decoder[1].start, res.decoder[1].end,
                    res.decoder[1].mask>>
\* What each call shape does with the arguments of the last call.
AsD8(amod) == install_device_D8(amod, last.width, last.start, last.end,
                                last.handler, last.mask)
AsD16(amod) == install_device_D16(amod, last.width, last.start, last.end,
                                  last.handler, last.mask)
AsD32(amod) == install_device_D32(amod, last.width, last.start, last.end,
                                  last.handler, last.mask)
AsShape(shape, amod) ==
    CASE shape = "D8" -> AsD8(amod)
      [] shape = "D16" -> AsD16(amod)
      [] shape = "D32" -> AsD32(amod)

\* C1: with a supported address modifier and a resolved bus width W in
\* {16, 24, 32}, an install_device call of any shape does not fail and adds
\* exactly one decoder to the bus's address space, for the range given and
\* with the mask ANDed with 2^W - 1; every other table is left alone.
C1_RegistersNarrowedMask ==
    [][(Called /\ Resolved /\ last'.amod \in SupportedAmods
               /\ m_prgwidth \in {16, 24, 32})
       => /\ failure' = "none"
          /\ last'.outcome = "ok"
          /\ decoders' = [decoders EXCEPT ![m_prgspace] =
                Append(@, [start |-> last'.start, end |-> last'.end,
                           handler |-> <<last'.shape, last'.handler>>,
                           mask |-> LowBits(last'.mask, m_prgwidth)])]]_vars

\* A 24-bit bus has narrowed the mask 0xffffffff to 0x00ffffff.
C1_Witness ==
    /\ last.shape # "none" /\ last.outcome = "ok" /\ Resolved
    /\ last.mask = Word(65535, 65535)
    /\ last.width = 24
    /\ Newest(m_prgspace).mask = Word(255, 65535)

\* C2: with any other address modifier, whatever the bus width, an
\* install_device call ends in the fatal error for the modifier and leaves
\* every decoder table as it was.
C2_BadModifierIsFatal ==
    [][(Called /\ last'.amod \notin SupportedAmods)
       => /\ failure' = "fatalerror"
          /\ last'.outcome = "bad_amod"
          /\ decoders' = decoders]_vars

\* A call with an unsupported modifier was made on a bus of a supported
\* width that already holds a decoder.
C2_Witness ==
    /\ last.shape # "none" /\ last.amod \notin SupportedAmods
    /\ Resolved /\ m_prgwidth \in {16, 24, 32}
    /\ failure = "fatalerror"
    /\ Len(decoders[m_prgspace]) = 1

\* C3: with a supported address modifier and a resolved bus width outside
\* {16, 24, 32}, an install_device call ends in the fatal error for the
\* width and leaves every decoder table as it was.
C3_BadWidthIsFatal ==
    [][(Called /\ Resolved /\ last'.amod \in SupportedAmods
               /\ m_prgwidth \notin {16, 24, 32})
       => /\ failure' = "fatalerror"
          /\ last'.outcome = "bad_width"
          /\ decoders' = decoders]_vars

\* A call with a supported modifier was made on a bus resolved to 8 bits.
C3_Witness ==
    /\ last.shape = "D32" /\ last.amod \in SupportedAmods
    /\ Resolved /\ m_prgwidth = 8
    /\ last.outcome = "bad_width" /\ failure = "fatalerror"

\* C7 as claimed: no install_device call is made (so none reads the width
\* or registers a decoder) while the bus's address space is unresolved.
C7_InstallOnlyWhenResolved ==
    last.shape # "none" => last.resolved

\* C6 as claimed: when the bus delegates its address space and the named
\* processor is not found, device_start ends in the fatal error and the
\* bus has neither an address-space handle nor a width.
C6_MissingCpuIsFatal ==
    m_maincpu = NULL
    => /\ failure = "fatalerror"
       /\ m_prgspace = Indeterminate
       /\ m_prgwidth = IndeterminateWidth

\* C9: the three call shapes do the same with the arguments of any call:
\* the same outcome (success, or the same kind of fatal error) and, on
\* success, the same range and mask with the handler pair of their own
\* shape; and that is what the call made on a resolved bus did.
C9_ShapesAgree ==
    last.shape # "none" =>
        /\ AsD8(last.amod).outcome = AsD16(last.amod).outcome
        /\ AsD16(last.amod).outcome = AsD32(last.amod).outcome
        /\ Bare(AsD8(last.amod)) = Bare(AsD16(last.amod))
        /\ Bare(AsD16(last.amod)) = Bare(AsD32(last.amod))
        /\ AsD8(last.amod).outcome = "ok" =>
              /\ AsD8(last.amod).decoder[1].handler = <<"D8", last.handler>>
              /\ AsD16(last.amod).decoder[1].handler = <<"D16", last.handler>>
              /\ AsD32(last.amod).decoder[1].handler = <<"D32", last.handler>>
        /\ last.resolved =>
              /\ last.outcome = AsD8(last.amod).outcome
              /\ last.outcome = "ok" =>
                    /\ Newest(m_prgspace).start = AsD8(last.amod).decoder[1].start
                    /\ Newest(m_prgspace).end = AsD8(last.amod).decoder[1].end
                    /\ Newest(m_prgspace).mask = AsD8(last.amod).decoder[1].mask
                    /\ Newest(m_prgspace).handler = <<last.shape, last.handler>>

\* A 32-bit handler pair was installed on a 16-bit bus, its mask narrowed.
C9_Witness ==
    /\ last.shape = "D32" /\ last.outcome = "ok" /\ Resolved
    /\ last.width = 16 /\ last.mask = Word(65535, 65535)
    /\ Newest(m_prgspace).mask = Word(0, 65535)

\* C10: the decoder a successful call registers is the one the same call
\* would register with any other supported modifier; its start and end are
\* the caller's; and every decoder is in the one space the bus resolved.
C10_ModifierNotRouted ==
    (last.shape # "none" /\ last.resolved /\ last.outcome = "ok") =>
        /\ \A amod \in SupportedAmods :
              AsShape(last.shape, amod).decoder = <<Newest(m_prgspace)>>
        /\ Newest(m_prgspace).start = last.start
        /\ Newest(m_prgspace).end = last.end
        /\ \A sp \in Spaces \ {m_prgspace} : decoders[sp] = <<>>

\* Two calls that differ in the modifier alone, A24 then A16, registered the
\* same decoder twice, for a range above the 16-bit addresses.
C10_Witness ==
    /\ last.shape = "D8" /\ last.amod = "A16_SC" /\ last.outcome = "ok"
    /\ Resolved /\ last.start >= Two16
    /\ Len(decoders[m_prgspace]) = 2
    /\ decoders[m_prgspace][1] = decoders[m_prgspace][2]

\* The cards of a sequence.
Range(seq) == {seq[i] : i \in 1..Len(seq)}
\* The state of a card in its life cycle, from its bus tag and bus pointer.
CardState(tag, vme) ==
    IF vme # NULL THEN "Attached"
    ELSE IF tag # NULL THEN "Configured" ELSE "Constructed"

\* C4: while the bus exists its card list enumerates the attached cards in
\* the order of their attachment and counts them; once the bus is torn
\* down the list is empty and every card that was attached still exists.
C4_ListInAttachOrder ==
    /\ bus_alive => /\ Enumerate = attach_log
                    /\ m_count = Len(attach_log)
    /\ ~bus_alive => /\ Enumerate = <<>>
                     /\ m_count = 0
                     /\ \A c \in Range(attach_log) : card_exists[c]

\* Two cards were attached against the order of their slots, and the bus
\* was then torn down.
C4_Witness ==
    /\ ~bus_alive
    /\ attach_log = <<CardOf(2), CardOf(1)>>

\* C5: a set_vme_device call whose lookup finds no bus is not fatal, leaves
\* the card's bus pointer null and the card list alone; from then on the
\* pointer stays null, the card stays off the list and a configured card
\* stays in the state Configured.
C5_UnattachedStays ==
    [][\A c \in Cards :
        /\ (~card_started[c] /\ card_started'[c]
              /\ machine_device(card_vme_tag[c]) = NULL)
           => /\ failure' = failure
              /\ m_vme'[c] = NULL
              /\ UNCHANGED listvars
        /\ (card_started[c] /\ m_vme[c] = NULL)
           => /\ m_vme'[c] = NULL
              /\ c \notin Range(Enumerate')
              /\ c \notin Range(attach_log')
              /\ card_vme_tag[c] # NULL =>
                    CardState(card_vme_tag'[c], m_vme'[c]) = "Configured"]_vars

\* A card configured with a tag that names no bus has started and is
\* unattached, while another card is on the list of the bus.
C5_Witness ==
    \E c \in Cards :
        /\ card_started[c] /\ card_vme_tag[c] = "nobus" /\ m_vme[c] = NULL
        /\ c \notin Range(Enumerate)
        /\ m_count = 1
        /\ failure = "none"

\* C8: a slot's device_start gives a plugged card the bus tag and the slot
\* tag of the slot; on an empty slot it changes no card, nor the card list,
\* nor a decoder table.
C8_SlotStart ==
    [][\A s \in Slots :
        (~slot_started[s] /\ slot_started'[s])
        => IF get_card_device(s) # NULL
           THEN /\ card_vme_tag'[get_card_device(s)] = slot_vme_tag[s]
                /\ card_vme_slottag'[get_card_device(s)] = slot_vme_slottag[s]
           ELSE UNCHANGED <<cardvars, listvars, decoders>>]_vars

\* A configured slot has started with its card, and an empty slot has
\* started.
C8_Witness ==
    \E s, t \in Slots :
        /\ slot_started[s] /\ plugged[s]
        /\ card_vme_tag[CardOf(s)] = BusTag
        /\ card_vme_slottag[CardOf(s)] = SlotTag(s)
        /\ slot_started[t] /\ ~plugged[t]

====
